---- MODULE Spec2Model ----
(***************************************************************************)
(* Model of the Solana L1 -> L2 bridge relayer (src/src/main.rs) and of    *)
(* its on-chain data decoders (src/src/models/message.rs).                 *)
(*                                                                         *)
(* Spec       the relay loop: Relayer::new, monitor_and_relay,             *)
(*            process_data_change, send_l2_transfer, send_transaction_to_l2*)
(*            together with the L1 account it watches, the L2 ledger it    *)
(*            writes to and the operator restarting a terminated run.      *)
(* SpecCodec  the pure functions: NonceStatus::from_bytes,                 *)
(*            MessageType::from_u8 and the address derivation.             *)
(***************************************************************************)
EXTENDS Integers, Sequences, FiniteSets, TLC

(***************************************************************************)
(* Bounds of the model.                                                    *)
(***************************************************************************)
MaxNonce == 3        \* largest counter value the watched account takes
MaxPolls == 3        \* account reads per run
MaxRuns == 2         \* process starts (1 + restarts)
MaxBufLen == 18      \* longest account buffer handed to from_bytes

(***************************************************************************)
(* u64 values.  A u64 is kept as four 16-bit limbs, least significant      *)
(* first, so that all 64 bits are represented.                             *)
(***************************************************************************)
Limb == 65536

U64FromNat(n) == << n % Limb, (n \div Limb) % Limb, 0, 0 >>

U64ToNat(v) == v[1] + Limb * v[2]

\* byte i (0..7, least significant first) of a u64
U64Byte(v, i) == (v[(i \div 2) + 1] \div (IF i % 2 = 0 THEN 1 ELSE 256)) % 256

to_le_bytes(v) == [i \in 1..8 |-> U64Byte(v, i - 1)]

from_le_bytes(b) == [k \in 1..4 |-> b[2 * k - 1] + 256 * b[2 * k]]

(***************************************************************************)
(* Option<u64>                                                             *)
(***************************************************************************)
None == << >>

Some(n) == << n >>

unwrap_or(o, d) == IF o = None THEN d ELSE o[1]

(***************************************************************************)
(* models/message.rs                                                       *)
(***************************************************************************)
Ok(v) == [ok |-> TRUE, val |-> v]

Err(m) == [ok |-> FALSE, val |-> m]

\* variant: an unknown tag falls back to the first variant
from_u8_Default(value) ==
    CASE value = 1 -> Ok("Token")
      [] value = 2 -> Ok("NFT")
      [] OTHER     -> Ok("Native")

from_u8(value) ==
    CASE value = 0 -> Ok("Native")
      [] value = 1 -> Ok("Token")
      [] value = 2 -> Ok("NFT")
      [] OTHER     -> Err("Invalid MessageType value")

\* variant: the counter is read at offset 0 of a buffer of at least 8 bytes
from_bytes_Offset0(data) ==
    IF Len(data) < 8
    THEN Err("Insufficient account data length")
    ELSE Ok(from_le_bytes(SubSeq(data, 1, 8)))

from_bytes(data) ==
    IF Len(data) < 16
    THEN Err("Insufficient account data length")
    ELSE Ok(from_le_bytes(SubSeq(data, 9, 16)))

(***************************************************************************)
(* pda.rs (PdaManager): the address of the record of one event index is    *)
(* derived from the program, the watched account and the index's eight     *)
(* little-endian bytes as seeds.                                           *)
(***************************************************************************)
L1Program == 1

WatchedAccount == 1

\* variant: only the low byte of the index is used as seed
find_address_LowByte(program, base, nonce) ==
    << [program |-> program, base |-> base, seed |-> << U64Byte(nonce, 0) >>], 255 >>

find_address(program, base, nonce) ==
    << [program |-> program, base |-> base, seed |-> to_le_bytes(nonce)], 255 >>

\* the transfer records the L1 program has written, one per event index
TransferRecords ==
    { [pda    |-> find_address(L1Program, WatchedAccount, U64FromNat(i))[1],
       amount |-> 100 * (i + 1),
       to     |-> i] : i \in 0..MaxNonce }

get_transfer_info(pda) ==
    LET r == CHOOSE x \in TransferRecords : x.pda = pda
    IN  << r.amount, r.to >>

(***************************************************************************)
(* The watched account's bytes: an 8-byte prefix followed by the counter,  *)
(* or a buffer too short to hold it.                                       *)
(***************************************************************************)
AccountBytes(n) == [i \in 1..16 |-> IF i <= 8 THEN 0 ELSE to_le_bytes(U64FromNat(n))[i - 8]]

ShortAccountBytes == [i \in 1..8 |-> 0]

AccountDatas == { AccountBytes(n) : n \in 0..MaxNonce } \cup { ShortAccountBytes }

VARIABLES
    pc,           \* position of the run: poll, drain, fetch, build, submit, sleep, fatal
    err,          \* the error main returned with, "" while running
    last_nonce,   \* Relayer.last_nonce
    start_nonce,  \* process_data_change: start_nonce
    new_nonce,    \* process_data_change: new_nonce
    nonce,        \* process_data_change: loop variable
    info,         \* send_l2_transfer: (amount, to_address)
    transaction,  \* send_l2_transfer: transaction
    pass,         \* "none", "running", "done": the draining pass of this iteration
    pass_cursor,  \* last_nonce when the pass began
    pass_base,    \* Len(attempts) when the pass began
    pass_ledger,  \* Len(l2_ledger) when the pass began
    reads,        \* counter values decoded in this run, in order
    attempts,     \* indices send_l2_transfer was called with in this run, in order
    l2_ledger,    \* transactions confirmed on L2, all runs, in order
    l1_data,      \* bytes of the watched account on L1
    run,          \* number of the current run
    c_kind,       \* SpecCodec: which function is applied
    c_in,         \* SpecCodec: its input
    c_done,       \* SpecCodec: the function has been applied
    c_out         \* SpecCodec: its result

relayVars == << pc, err, last_nonce, start_nonce, new_nonce, nonce, info,
                transaction, pass, pass_cursor, pass_base, pass_ledger, reads, attempts, run >>

codecVars == << c_kind, c_in, c_done, c_out >>

vars == << relayVars, l2_ledger, l1_data, codecVars >>

NoInfo == << >>

NoTx == << >>

\* Relayer::new: the loop is about to poll, the cursor is empty
RelayerNew ==
    /\ pc = "poll"
    /\ err = ""
    /\ last_nonce = None
    /\ start_nonce = 0
    /\ new_nonce = 0
    /\ nonce = 0
    /\ info = NoInfo
    /\ transaction = NoTx
    /\ pass = "none"
    /\ pass_cursor = None
    /\ pass_base = 0
    /\ pass_ledger = 0
    /\ reads = << >>
    /\ attempts = << >>

CodecIdle ==
    /\ c_kind = "none"
    /\ c_in = << >>
    /\ c_done = FALSE
    /\ c_out = << >>

Init ==
    /\ RelayerNew
    /\ run = 1
    /\ l2_ledger = << >>
    /\ l1_data \in AccountDatas
    /\ CodecIdle

\* the run ends: the error propagates out of monitor_and_relay and main
Fatal(e) ==
    /\ pc' = "fatal"
    /\ err' = e

(***************************************************************************)
(* monitor_and_relay, lines 69-75: one read of the watched account.        *)
(***************************************************************************)
\* get_account_data fails
ReadAccountFails ==
    /\ pc = "poll"
    /\ Len(reads) < MaxPolls
    /\ Fatal("read")
    /\ UNCHANGED << last_nonce, start_nonce, new_nonce, nonce, info, transaction,
                    pass, pass_cursor, pass_base, pass_ledger, reads, attempts, run >>
    /\ UNCHANGED << l2_ledger, l1_data, codecVars >>

\* NonceStatus::from_bytes fails
DecodeFails ==
    /\ pc = "poll"
    /\ Len(reads) < MaxPolls
    /\ ~ from_bytes(l1_data).ok
    /\ Fatal("decode")
    /\ UNCHANGED << last_nonce, start_nonce, new_nonce, nonce, info, transaction,
                    pass, pass_cursor, pass_base, pass_ledger, reads, attempts, run >>
    /\ UNCHANGED << l2_ledger, l1_data, codecVars >>

\* variant: process_data_change is entered also when the counter read equals
\* the cursor, and starts one index early
PollUnchanged_Enters ==
    /\ pc = "poll"
    /\ Len(reads) < MaxPolls
    /\ from_bytes(l1_data).ok
    /\ LET n == U64ToNat(from_bytes(l1_data).val) IN
         /\ ~ (last_nonce /= Some(n))
         /\ reads' = Append(reads, n)
         /\ new_nonce' = n
         /\ start_nonce' = IF n > 0 THEN n - 1 ELSE 0
         /\ nonce' = IF n > 0 THEN n - 1 ELSE 0
    /\ pass' = "running"
    /\ pass_cursor' = last_nonce
    /\ pass_base' = Len(attempts)
    /\ pass_ledger' = Len(l2_ledger)
    /\ pc' = "drain"
    /\ UNCHANGED << err, last_nonce, info, transaction, attempts, run >>
    /\ UNCHANGED << l2_ledger, l1_data, codecVars >>

\* the counter read equals the cursor: nothing to do
PollUnchanged ==
    /\ pc = "poll"
    /\ Len(reads) < MaxPolls
    /\ from_bytes(l1_data).ok
    /\ LET n == U64ToNat(from_bytes(l1_data).val) IN
         /\ ~ (last_nonce /= Some(n))
         /\ reads' = Append(reads, n)
    /\ pc' = "sleep"
    /\ UNCHANGED << err, last_nonce, start_nonce, new_nonce, nonce, info, transaction,
                    pass, pass_cursor, pass_base, pass_ledger, attempts, run >>
    /\ UNCHANGED << l2_ledger, l1_data, codecVars >>

\* variant: the pass starts from index 0 whatever the cursor holds
PollChanged_FromZero ==
    /\ pc = "poll"
    /\ Len(reads) < MaxPolls
    /\ from_bytes(l1_data).ok
    /\ LET n == U64ToNat(from_bytes(l1_data).val) IN
         /\ last_nonce /= Some(n)
         /\ reads' = Append(reads, n)
         /\ new_nonce' = n
    /\ start_nonce' = 0
    /\ nonce' = 0
    /\ pass' = "running"
    /\ pass_cursor' = last_nonce
    /\ pass_base' = Len(attempts)
    /\ pass_ledger' = Len(l2_ledger)
    /\ pc' = "drain"
    /\ UNCHANGED << err, last_nonce, info, transaction, attempts, run >>
    /\ UNCHANGED << l2_ledger, l1_data, codecVars >>

\* the counter read differs from the cursor: process_data_change is entered
PollChanged ==
    /\ pc = "poll"
    /\ Len(reads) < MaxPolls
    /\ from_bytes(l1_data).ok
    /\ LET n == U64ToNat(from_bytes(l1_data).val) IN
         /\ last_nonce /= Some(n)
         /\ reads' = Append(reads, n)
         /\ new_nonce' = n
    /\ start_nonce' = unwrap_or(last_nonce, 0)
    /\ nonce' = unwrap_or(last_nonce, 0)
    /\ pass' = "running"
    /\ pass_cursor' = last_nonce
    /\ pass_base' = Len(attempts)
    /\ pass_ledger' = Len(l2_ledger)
    /\ pc' = "drain"
    /\ UNCHANGED << err, last_nonce, info, transaction, attempts, run >>
    /\ UNCHANGED << l2_ledger, l1_data, codecVars >>

(***************************************************************************)
(* process_data_change, lines 83-86, and the assignment of line 74.        *)
(***************************************************************************)
\* variant: the range includes its upper bound
DrainNext_Inclusive ==
    /\ pc = "drain"
    /\ nonce <= new_nonce
    /\ attempts' = Append(attempts, nonce)
    /\ pc' = "fetch"
    /\ UNCHANGED << err, last_nonce, start_nonce, new_nonce, nonce, info, transaction,
                    pass, pass_cursor, pass_base, pass_ledger, reads, run >>
    /\ UNCHANGED << l2_ledger, l1_data, codecVars >>

\* the range has another index: send_l2_transfer(nonce) is called
DrainNext ==
    /\ pc = "drain"
    /\ nonce < new_nonce
    /\ attempts' = Append(attempts, nonce)
    /\ pc' = "fetch"
    /\ UNCHANGED << err, last_nonce, start_nonce, new_nonce, nonce, info, transaction,
                    pass, pass_cursor, pass_base, pass_ledger, reads, run >>
    /\ UNCHANGED << l2_ledger, l1_data, codecVars >>

\* variant: the cursor is assigned the last index of the range
DrainDone_MinusOne ==
    /\ pc = "drain"
    /\ ~ (nonce < new_nonce)
    /\ last_nonce' = Some(IF new_nonce > 0 THEN new_nonce - 1 ELSE 0)
    /\ pass' = "done"
    /\ pc' = "sleep"
    /\ UNCHANGED << err, start_nonce, new_nonce, nonce, info, transaction,
                    pass_cursor, pass_base, pass_ledger, reads, attempts, run >>
    /\ UNCHANGED << l2_ledger, l1_data, codecVars >>

\* the range is exhausted: Ok(()) is returned and the cursor is assigned
DrainDone ==
    /\ pc = "drain"
    /\ ~ (nonce < new_nonce)
    /\ last_nonce' = Some(new_nonce)
    /\ pass' = "done"
    /\ pc' = "sleep"
    /\ UNCHANGED << err, start_nonce, new_nonce, nonce, info, transaction,
                    pass_cursor, pass_base, pass_ledger, reads, attempts, run >>
    /\ UNCHANGED << l2_ledger, l1_data, codecVars >>

(***************************************************************************)
(* send_l2_transfer, lines 90-103.                                         *)
(***************************************************************************)
\* variant: the record is looked up at the address of the first index of the pass
FetchOk_Stale ==
    /\ pc = "fetch"
    /\ LET pda == find_address(L1Program, WatchedAccount, U64FromNat(start_nonce))[1]
       IN  info' = get_transfer_info(pda)
    /\ pc' = "build"
    /\ UNCHANGED << err, last_nonce, start_nonce, new_nonce, nonce, transaction,
                    pass, pass_cursor, pass_base, pass_ledger, reads, attempts, run >>
    /\ UNCHANGED << l2_ledger, l1_data, codecVars >>

FetchOk ==
    /\ pc = "fetch"
    /\ LET pda == find_address(L1Program, WatchedAccount, U64FromNat(nonce))[1]
       IN  info' = get_transfer_info(pda)
    /\ pc' = "build"
    /\ UNCHANGED << err, last_nonce, start_nonce, new_nonce, nonce, transaction,
                    pass, pass_cursor, pass_base, pass_ledger, reads, attempts, run >>
    /\ UNCHANGED << l2_ledger, l1_data, codecVars >>

\* variant: a failed fetch is tried again
FetchFails_Retry ==
    /\ pc = "fetch"
    /\ err' = "fetch"
    /\ attempts' = Append(attempts, nonce)
    /\ UNCHANGED << pc, last_nonce, start_nonce, new_nonce, nonce, info, transaction,
                    pass, pass_cursor, pass_base, pass_ledger, reads, run >>
    /\ UNCHANGED << l2_ledger, l1_data, codecVars >>

FetchFails ==
    /\ pc = "fetch"
    /\ Fatal("fetch")
    /\ UNCHANGED << last_nonce, start_nonce, new_nonce, nonce, info, transaction,
                    pass, pass_cursor, pass_base, pass_ledger, reads, attempts, run >>
    /\ UNCHANGED << l2_ledger, l1_data, codecVars >>

\* variant: the transaction is sent without waiting for its confirmation and
\* the loop moves on to the next index
BuildOk_FireAndForget ==
    /\ pc = "build"
    /\ transaction' = [amount |-> info[1], to |-> info[2]]
    /\ nonce' = nonce + 1
    /\ pc' = "drain"
    /\ UNCHANGED << err, last_nonce, start_nonce, new_nonce, info,
                    pass, pass_cursor, pass_base, pass_ledger, reads, attempts, run >>
    /\ UNCHANGED << l2_ledger, l1_data, codecVars >>

BuildOk ==
    /\ pc = "build"
    /\ transaction' = [amount |-> info[1], to |-> info[2]]
    /\ pc' = "submit"
    /\ UNCHANGED << err, last_nonce, start_nonce, new_nonce, nonce, info,
                    pass, pass_cursor, pass_base, pass_ledger, reads, attempts, run >>
    /\ UNCHANGED << l2_ledger, l1_data, codecVars >>

BuildFails ==
    /\ pc = "build"
    /\ Fatal("build")
    /\ UNCHANGED << last_nonce, start_nonce, new_nonce, nonce, info, transaction,
                    pass, pass_cursor, pass_base, pass_ledger, reads, attempts, run >>
    /\ UNCHANGED << l2_ledger, l1_data, codecVars >>

(***************************************************************************)
(* send_transaction_to_l2, lines 106-111.                                  *)
(***************************************************************************)
\* variant: the cursor is advanced to each index as soon as it is confirmed
SubmitOk_AdvancesCursor ==
    /\ pc = "submit"
    /\ l2_ledger' = Append(l2_ledger, [run    |-> run,
                                       nonce  |-> nonce,
                                       amount |-> transaction.amount,
                                       to     |-> transaction.to])
    /\ last_nonce' = Some(nonce)
    /\ nonce' = nonce + 1
    /\ info' = NoInfo
    /\ transaction' = NoTx
    /\ pc' = "drain"
    /\ UNCHANGED << err, start_nonce, new_nonce,
                    pass, pass_cursor, pass_base, pass_ledger, reads, attempts, run >>
    /\ UNCHANGED << l1_data, codecVars >>

\* variant: the loop steps over the index after each confirmed one
SubmitOk_StepTwo ==
    /\ pc = "submit"
    /\ l2_ledger' = Append(l2_ledger, [run    |-> run,
                                       nonce  |-> nonce,
                                       amount |-> transaction.amount,
                                       to     |-> transaction.to])
    /\ nonce' = nonce + 2
    /\ info' = NoInfo
    /\ transaction' = NoTx
    /\ pc' = "drain"
    /\ UNCHANGED << err, last_nonce, start_nonce, new_nonce,
                    pass, pass_cursor, pass_base, pass_ledger, reads, attempts, run >>
    /\ UNCHANGED << l1_data, codecVars >>

SubmitOk ==
    /\ pc = "submit"
    /\ l2_ledger' = Append(l2_ledger, [run    |-> run,
                                       nonce  |-> nonce,
                                       amount |-> transaction.amount,
                                       to     |-> transaction.to])
    /\ nonce' = nonce + 1
    /\ info' = NoInfo
    /\ transaction' = NoTx
    /\ pc' = "drain"
    /\ UNCHANGED << err, last_nonce, start_nonce, new_nonce,
                    pass, pass_cursor, pass_base, pass_ledger, reads, attempts, run >>
    /\ UNCHANGED << l1_data, codecVars >>

\* variant: a failed submission is dropped and the loop goes on
SubmitFails_Swallowed ==
    /\ pc = "submit"
    /\ nonce' = nonce + 1
    /\ info' = NoInfo
    /\ transaction' = NoTx
    /\ pc' = "drain"
    /\ UNCHANGED << err, last_nonce, start_nonce, new_nonce,
                    pass, pass_cursor, pass_base, pass_ledger, reads, attempts, run >>
    /\ UNCHANGED << l2_ledger, l1_data, codecVars >>

SubmitFails ==
    /\ pc = "submit"
    /\ Fatal("submit")
    /\ UNCHANGED << last_nonce, start_nonce, new_nonce, nonce, info, transaction,
                    pass, pass_cursor, pass_base, pass_ledger, reads, attempts, run >>
    /\ UNCHANGED << l2_ledger, l1_data, codecVars >>

(***************************************************************************)
(* monitor_and_relay, line 77: the locals of the iteration go out of scope *)
(***************************************************************************)
\* variant: monitor_and_relay returns Ok(()) after the sleep
Sleep_Returns ==
    /\ pc = "sleep"
    /\ pc' = "fatal"
    /\ UNCHANGED << err, last_nonce, start_nonce, new_nonce, nonce, info, transaction,
                    pass, pass_cursor, pass_base, pass_ledger, reads, attempts, run >>
    /\ UNCHANGED << l2_ledger, l1_data, codecVars >>

Sleep ==
    /\ pc = "sleep"
    /\ pc' = "poll"
    /\ start_nonce' = 0
    /\ new_nonce' = 0
    /\ nonce' = 0
    /\ pass' = "none"
    /\ pass_cursor' = None
    /\ pass_base' = 0
    /\ pass_ledger' = 0
    /\ UNCHANGED << err, last_nonce, info, transaction, reads, attempts, run >>
    /\ UNCHANGED << l2_ledger, l1_data, codecVars >>

(***************************************************************************)
(* The environment.                                                        *)
(***************************************************************************)
\* the L1 program rewrites the watched account
L1Update ==
    /\ \E d \in AccountDatas : d /= l1_data /\ l1_data' = d
    /\ UNCHANGED << relayVars, l2_ledger, codecVars >>

\* variant: the cursor survives the restart
Restart_KeepsCursor ==
    /\ pc = "fatal"
    /\ run < MaxRuns
    /\ run' = run + 1
    /\ pc' = "poll"
    /\ err' = ""
    /\ last_nonce' = last_nonce
    /\ start_nonce' = 0
    /\ new_nonce' = 0
    /\ nonce' = 0
    /\ info' = NoInfo
    /\ transaction' = NoTx
    /\ pass' = "none"
    /\ pass_cursor' = None
    /\ pass_base' = 0
    /\ pass_ledger' = 0
    /\ reads' = << >>
    /\ attempts' = << >>
    /\ UNCHANGED << l2_ledger, l1_data, codecVars >>

\* the operator starts the process again after it terminated: main, Relayer::new
Restart ==
    /\ pc = "fatal"
    /\ run < MaxRuns
    /\ run' = run + 1
    /\ pc' = "poll"
    /\ err' = ""
    /\ last_nonce' = None
    /\ start_nonce' = 0
    /\ new_nonce' = 0
    /\ nonce' = 0
    /\ info' = NoInfo
    /\ transaction' = NoTx
    /\ pass' = "none"
    /\ pass_cursor' = None
    /\ pass_base' = 0
    /\ pass_ledger' = 0
    /\ reads' = << >>
    /\ attempts' = << >>
    /\ UNCHANGED << l2_ledger, l1_data, codecVars >>

Next ==
    \/ ReadAccountFails
    \/ DecodeFails
    \/ PollUnchanged
    \/ PollChanged
    \/ DrainNext
    \/ DrainDone
    \/ FetchOk
    \/ FetchFails
    \/ BuildOk
    \/ BuildFails
    \/ SubmitOk
    \/ SubmitFails
    \/ Sleep
    \/ L1Update
    \/ Restart

Spec == Init /\ [][Next]_vars

(***************************************************************************)
(* SpecCodec: the pure functions applied to inputs drawn from bounded sets *)
(***************************************************************************)
ByteVals == {0, 1, 255}

PadVals == {0, 7}

\* buffers of every length up to MaxBufLen: a prefix, the eight counter
\* bytes, and trailing bytes
Buffers ==
    { [i \in 1..len |-> IF i <= 8 THEN p ELSE IF i <= 16 THEN m[i - 8] ELSE q] :
        len \in 0..MaxBufLen, p \in PadVals, q \in PadVals, m \in [1..8 -> ByteVals] }

Bytes == 0..255

Programs == {1, 2}

Accounts == {1, 2}

IndexVals == [1..4 -> {0, 1, 256}]

InitCodec ==
    /\ RelayerNew
    /\ run = 1
    /\ l2_ledger = << >>
    /\ l1_data = AccountBytes(0)
    /\ c_done = FALSE
    /\ c_out = << >>
    /\ \/ c_kind = "from_bytes" /\ c_in \in Buffers
       \/ c_kind = "from_u8" /\ c_in \in Bytes
       \/ /\ c_kind = "find_address"
          /\ c_in \in [program : Programs, base : Accounts, i : IndexVals, j : IndexVals]

ApplyFromBytes ==
    /\ c_kind = "from_bytes"
    /\ ~ c_done
    /\ c_done' = TRUE
    /\ c_out' = from_bytes(c_in)
    /\ UNCHANGED << c_kind, c_in, relayVars, l2_ledger, l1_data >>

ApplyFromU8 ==
    /\ c_kind = "from_u8"
    /\ ~ c_done
    /\ c_done' = TRUE
    /\ c_out' = from_u8(c_in)
    /\ UNCHANGED << c_kind, c_in, relayVars, l2_ledger, l1_data >>

ApplyFindAddress ==
    /\ c_kind = "find_address"
    /\ ~ c_done
    /\ c_done' = TRUE
    /\ c_out' = << find_address(c_in.program, c_in.base, c_in.i),
                   find_address(c_in.program, c_in.base, c_in.j) >>
    /\ UNCHANGED << c_kind, c_in, relayVars, l2_ledger, l1_data >>

NextCodec ==
    \/ ApplyFromBytes
    \/ ApplyFromU8
    \/ ApplyFindAddress

SpecCodec == InitCodec /\ [][NextCodec]_vars

(***************************************************************************)
(* SpecLive: one run of the relay loop, scheduled fairly, against a        *)
(* watched account whose counter is well-formed and only grows.            *)
(***************************************************************************)
\* the counter held by the watched account
L1Counter == U64ToNat(from_bytes(l1_data).val)

InitLive ==
    /\ RelayerNew
    /\ run = 1
    /\ l2_ledger = << >>
    /\ l1_data \in { AccountBytes(n) : n \in 0..MaxNonce }
    /\ CodecIdle

\* the L1 program emits events: the counter grows
L1Emit ==
    /\ \E n \in 0..MaxNonce : n > L1Counter /\ l1_data' = AccountBytes(n)
    /\ UNCHANGED << relayVars, l2_ledger, codecVars >>

\* the decoded counter is dropped after the comparison: only the last
\* MaxPolls - 1 reads are remembered when the next poll begins
ForgetRead ==
    /\ pc = "poll"
    /\ Len(reads) = MaxPolls
    /\ reads' = Tail(reads)
    /\ UNCHANGED << pc, err, last_nonce, start_nonce, new_nonce, nonce, info, transaction,
                    pass, pass_cursor, pass_base, pass_ledger, attempts, run >>
    /\ UNCHANGED << l2_ledger, l1_data, codecVars >>

\* a step of the loop in which nothing fails
LoopStep ==
    \/ ForgetRead
    \/ PollUnchanged
    \/ PollChanged
    \/ DrainNext
    \/ DrainDone
    \/ FetchOk
    \/ BuildOk
    \/ SubmitOk
    \/ Sleep

NextLive ==
    \/ LoopStep
    \/ ReadAccountFails
    \/ FetchFails
    \/ BuildFails
    \/ SubmitFails
    \/ L1Emit

SpecLive == InitLive /\ [][NextLive]_vars /\ WF_vars(LoopStep)

(***************************************************************************)
(* Properties                                                              *)
(***************************************************************************)
\* the sequence a, a+1, ..., b-1 (empty when b <= a)
Range(a, b) == [i \in 1..(b - a) |-> a + i - 1]

\* indices attempted in the draining pass of the current iteration
PassAttempts == SubSeq(attempts, pass_base + 1, Len(attempts))

\* indices confirmed on L2 in the draining pass of the current iteration
PassConfirmed ==
    [i \in 1..(Len(l2_ledger) - pass_ledger) |-> l2_ledger[pass_ledger + i].nonce]

\* indices confirmed on L2 by the current run, in order
RunConfirmed ==
    LET txs == SelectSeq(l2_ledger, LAMBDA t : t.run = run)
    IN  [i \in 1..Len(txs) |-> txs[i].nonce]

\* a step of the relay failed in the current iteration
StepFailed == err \in {"fetch", "build", "submit"}

\* C1: a draining pass entered with cursor Some(c) for a counter n > c
\* attempts c, c+1, ... in ascending order without gap and nothing outside
\* c..n-1; a pass that completes has attempted exactly c..n-1; when the
\* attempt of index k fails the attempts of the pass are c..k, they stay so
\* for the rest of the run, and the cursor still holds c.
C1_DrainOrder ==
    (pass /= "none" /\ pass_cursor /= None /\ new_nonce > unwrap_or(pass_cursor, 0)) =>
        LET c == pass_cursor[1] IN
        /\ PassAttempts = Range(c, c + Len(PassAttempts))
        /\ c + Len(PassAttempts) <= new_nonce
        /\ (pass = "done" => PassAttempts = Range(c, new_nonce))
        /\ (StepFailed => /\ PassAttempts = Range(c, nonce + 1)
                          /\ last_nonce = Some(c)
                          /\ pc = "fatal")

\* C1 witness: cursor Some(c), the attempt of an index strictly inside the
\* range failed after earlier ones were confirmed
C1_Witness ==
    /\ pc = "fatal"
    /\ StepFailed
    /\ pass_cursor /= None
    /\ new_nonce > unwrap_or(pass_cursor, 0)
    /\ nonce > start_nonce
    /\ nonce + 1 < new_nonce

\* C2: in a run whose reads so far are 0 and then n, the transactions the
\* run got confirmed are for 0, 1, ... in that order and for no other index,
\* and once the pass for n has completed they are exactly 0..n-1.
C2_ZeroToN ==
    (Len(reads) \in 1..2 /\ reads[1] = 0) =>
        LET n == reads[Len(reads)] IN
        /\ RunConfirmed = Range(0, Len(RunConfirmed))
        /\ Len(RunConfirmed) <= n
        /\ ((pc = "sleep" /\ Len(reads) = 2) => RunConfirmed = Range(0, n))

\* C2 witness: the counter went 0 -> 2 and the run confirmed indices 0, 1
C2_Witness ==
    /\ reads = << 0, 2 >>
    /\ pc = "sleep"
    /\ RunConfirmed = << 0, 1 >>
    /\ l2_ledger[Len(l2_ledger) - 1].amount = 100
    /\ l2_ledger[Len(l2_ledger)].amount = 200

\* C3 as stated: after a completed pass for n >= 1 the cursor holds n-1
C3_CursorIsLastIndex ==
    (pass = "done" /\ new_nonce >= 1) => last_nonce = Some(new_nonce - 1)

\* C3 amended: after a completed pass for n >= 1 the cursor holds n, the
\* counter value read; when the pass relayed anything, n is one more than
\* the index confirmed last, n-1.
C3_CursorIsCounter ==
    (pass = "done" /\ new_nonce >= 1) =>
        /\ last_nonce = Some(new_nonce)
        /\ (start_nonce < new_nonce =>
               /\ Len(l2_ledger) > pass_ledger
               /\ l2_ledger[Len(l2_ledger)].nonce = new_nonce - 1
               /\ l2_ledger[Len(l2_ledger)].run = run)

\* C3 witness: counter 0 -> 2, indices 0 and 1 relayed, the pass completed
C3_Witness ==
    /\ pass = "done"
    /\ reads = << 0, 2 >>
    /\ RunConfirmed = << 0, 1 >>
    /\ last_nonce = Some(2)

\* C4 as stated: within a run every change of the cursor from Some(a) to
\* Some(b) has b > a, whatever counter values are read
C4_StrictlyForward ==
    [][(run' = run /\ last_nonce /= None /\ last_nonce' /= None
        /\ last_nonce' /= last_nonce)
          => last_nonce'[1] > last_nonce[1]]_vars

C6_RestartRedrains ==
    /\ (reads = << >> => last_nonce = None /\ attempts = << >>)
    /\ (Len(reads) = 1 =>
          /\ attempts = Range(0, Len(attempts))
          /\ Len(attempts) <= reads[1]
          /\ (pc \in {"sleep", "poll"} =>
                /\ attempts = Range(0, reads[1])
                /\ RunConfirmed = Range(0, reads[1])))

\* C6 witness: the second run finished its first pass and submitted again an
\* index the first run had already got confirmed
C6_Witness ==
    /\ run = 2
    /\ Len(reads) = 1
    /\ pc = "sleep"
    /\ RunConfirmed = Range(0, reads[1])
    /\ \E i \in 1..Len(l2_ledger) : \E j \in 1..Len(l2_ledger) :
          /\ l2_ledger[i].run = 1
          /\ l2_ledger[j].run = 2
          /\ l2_ledger[i].nonce = l2_ledger[j].nonce

\* C7: a failed step always ends the run, and a run that has ended with an
\* error reads no account, attempts and submits nothing and leaves the cursor
\* alone: the only thing that follows is a new run.
C7_FailureIsFatal ==
    [][/\ (err /= "" => pc = "fatal")
       /\ (err' /= "" => pc' = "fatal")
       /\ (pc = "fatal" =>
             \/ run' = run + 1
             \/ /\ pc' = "fatal"
                /\ UNCHANGED << err, last_nonce, reads, attempts, l2_ledger, run >>)]_vars

\* C7 witness: a submission failed after earlier indices of the pass went
\* through
C7_Witness ==
    /\ pc = "fatal"
    /\ err = "submit"
    /\ nonce > start_nonce
    /\ attempts[Len(attempts)] = nonce

\* C8: from_bytes fails on every buffer shorter than 16 bytes; on every
\* buffer of 16 bytes or more it succeeds with a u64 whose eight bytes, least
\* significant first, are the buffer's bytes at offsets 8..15, so that the
\* bytes before offset 8 and from offset 16 on have no influence.
C8_FromBytes ==
    (c_kind = "from_bytes" /\ c_done) =>
        IF Len(c_in) < 16
        THEN ~ c_out.ok
        ELSE /\ c_out.ok
             /\ \A k \in 1..4 : c_out.val[k] \in 0..(Limb - 1)
             /\ \A i \in 0..7 : U64Byte(c_out.val, i) = c_in[8 + i + 1]

\* C8 witness: a buffer longer than 16 bytes with non-zero bytes before and
\* after the counter, whose lowest and highest counter bytes differ, decoded
C8_Witness ==
    /\ c_kind = "from_bytes"
    /\ c_done
    /\ Len(c_in) > 16
    /\ c_in[1] /= 0
    /\ c_in[17] /= 0
    /\ c_in[9] = 1
    /\ c_in[16] = 255
    /\ c_out.ok

\* C9: from_u8 maps 0 to Native, 1 to Token, 2 to NFT and fails on every
\* other byte; a successful result comes only from 0, 1 or 2.
C9_FromU8 ==
    (c_kind = "from_u8" /\ c_done) =>
        /\ (c_in = 0 => c_out = Ok("Native"))
        /\ (c_in = 1 => c_out = Ok("Token"))
        /\ (c_in = 2 => c_out = Ok("NFT"))
        /\ (c_in \in 3..255 => ~ c_out.ok)
        /\ (c_out.ok => c_in \in {0, 1, 2})

\* C9 witness: the largest byte value was decoded and rejected
C9_Witness ==
    /\ c_kind = "from_u8"
    /\ c_done
    /\ c_in = 255
    /\ ~ c_out.ok

Elems(seq) == { seq[i] : i \in 1..Len(seq) }

\* C11 as stated: a completed pass for a counter above the cursor's value has
\* attempted exactly the indices i with cursorValue < i <= newValue
C11_RangeOpenClosed ==
    (pass = "done" /\ new_nonce > unwrap_or(pass_cursor, 0)) =>
        Elems(PassAttempts) =
            { i \in 0..(MaxNonce + 1) : unwrap_or(pass_cursor, 0) < i /\ i <= new_nonce }

\* C11 amended: a completed pass for a counter above the cursor's value has
\* attempted exactly the indices i with cursorValue <= i < newValue, the
\* cursor's value being 0 when the cursor is empty.
C11_RangeClosedOpen ==
    (pass = "done" /\ new_nonce > unwrap_or(pass_cursor, 0)) =>
        Elems(PassAttempts) =
            { i \in 0..(MaxNonce + 1) : unwrap_or(pass_cursor, 0) <= i /\ i < new_nonce }

\* C11 witness: a pass from cursor Some(1) to counter 3 completed
C11_Witness ==
    /\ pass = "done"
    /\ pass_cursor = Some(1)
    /\ new_nonce = 3
    /\ PassAttempts = << 1, 2 >>

\* C12 as stated: when an index fails after earlier indices of the same pass
\* were confirmed, the cursor holds the index confirmed last in that pass
C12_CursorPerIndex ==
    (StepFailed /\ Len(PassConfirmed) > 0) =>
        last_nonce = Some(PassConfirmed[Len(PassConfirmed)])

\* C12 amended: the cursor is not touched while a pass is running; however
\* many indices of the pass have been confirmed, and also when a later index
\* fails, it holds the value it had when the pass began.
C12_CursorHeldDuringPass ==
    (pass = "running") => last_nonce = pass_cursor

\* C12 witness: the third index of a pass failed after two were confirmed,
\* the cursor being the one the pass began with
C12_Witness ==
    /\ pass = "running"
    /\ StepFailed
    /\ Len(PassConfirmed) = 2
    /\ pass_cursor = Some(0)
    /\ last_nonce = Some(0)

\* attempts of the current pass that have begun and are not confirmed
InFlight == Len(PassAttempts) - Len(PassConfirmed)

\* C13: during a pass at most one attempt is unconfirmed, and exactly one
\* while the run is inside send_l2_transfer or has failed there; an attempt
\* begins only between attempts, when every earlier attempt of the pass has
\* been confirmed and no record or transaction is held; the account is read
\* only when no pass is in progress.
C13_Sequential ==
    [][/\ (pass /= "none" =>
             /\ InFlight \in {0, 1}
             /\ (InFlight = 1 <=> (pc \in {"fetch", "build", "submit"} \/ StepFailed)))
       /\ ((attempts' /= attempts /\ run' = run) =>
             /\ pc = "drain"
             /\ PassConfirmed = PassAttempts
             /\ info = NoInfo
             /\ transaction = NoTx)
       /\ ((reads' /= reads /\ run' = run) =>
             /\ pc = "poll"
             /\ pass = "none")]_vars

\* C13 witness: the second attempt of a pass is under way, the first one
\* confirmed
C13_Witness ==
    /\ pc = "submit"
    /\ Len(PassAttempts) = 2
    /\ Len(PassConfirmed) = 1
    /\ PassConfirmed[1] = PassAttempts[1]

\* C14: a read of the watched account that returns the cursor's value leaves
\* the cursor, the attempts, the L2 ledger and the record and transaction
\* slots as they are and puts the loop to sleep; from that sleep the loop does
\* nothing but go back to polling.
C14_EqualReadIsNoOp ==
    [][/\ ((reads' /= reads /\ run' = run /\ last_nonce = Some(reads'[Len(reads')])) =>
             /\ pc' = "sleep"
             /\ pass' = "none"
             /\ UNCHANGED << last_nonce, attempts, l2_ledger, info, transaction >>)
       /\ ((pc = "sleep" /\ pass = "none") =>
             /\ pc' \in {"sleep", "poll"}
             /\ UNCHANGED << last_nonce, attempts, l2_ledger, info, transaction >>)]_vars

\* C14 witness: after indices were relayed, a poll read the cursor's value
\* again and the loop sleeps
C14_Witness ==
    /\ pc = "sleep"
    /\ pass = "none"
    /\ Len(reads) >= 2
    /\ reads[Len(reads)] = reads[Len(reads) - 1]
    /\ reads[Len(reads)] >= 1
    /\ last_nonce = Some(reads[Len(reads)])
    /\ RunConfirmed = Range(0, reads[Len(reads)])

\* the (amount, destination) of the record stored for event index i
RecordOf(i) ==
    get_transfer_info(find_address(L1Program, WatchedAccount, U64FromNat(i))[1])

\* C15: every transaction confirmed on L2 for index i carries the amount and
\* destination of the record at the address derived from i and of no other
\* index's record; an attempt begins holding no record and no transaction,
\* the record it holds afterwards is the one of its own index, and the
\* transaction it submits is built from that record.
C15_PayloadFidelity ==
    /\ \A k \in 1..Len(l2_ledger) :
          LET t == l2_ledger[k]
              pda == find_address(L1Program, WatchedAccount, U64FromNat(t.nonce))[1]
          IN  \A r \in TransferRecords :
                  (r.amount = t.amount /\ r.to = t.to) <=> (r.pda = pda)
    /\ (pc = "fetch" => info = NoInfo /\ transaction = NoTx)
    /\ (pc \in {"build", "submit"} => info = RecordOf(nonce))
    /\ (pc = "submit" => << transaction.amount, transaction.to >> = info)

\* C15 witness: the third index of a run is about to be submitted with its
\* own record's amount, the first two already confirmed with theirs
C15_Witness ==
    /\ pc = "submit"
    /\ nonce = 2
    /\ transaction.amount = 300
    /\ Len(l2_ledger) >= 2
    /\ l2_ledger[Len(l2_ledger)].nonce = 1
    /\ l2_ledger[Len(l2_ledger)].amount = 200
    /\ l2_ledger[Len(l2_ledger) - 1].amount = 100

\* C16: the run terminates only with an error, and in every behaviour in
\* which no step fails the run never terminates and reads the watched
\* account again and again.
C16_NeverTerminates ==
    /\ [](pc = "fatal" => err /= "")
    /\ ([](err = "") => []<><< PollUnchanged \/ PollChanged >>_vars)

\* C16 witness: the loop is back at polling after MaxPolls reads and a
\* completed relay, no step having failed
C16_Witness ==
    /\ pc = "poll"
    /\ err = ""
    /\ Len(reads) = MaxPolls
    /\ Len(l2_ledger) >= 1
    /\ last_nonce = Some(L1Counter)

\* a sequence of numbers that never goes down
NonDecreasing(seq) == \A i \in 1..(Len(seq) - 1) : seq[i] <= seq[i + 1]

\* C17: as long as the counter values a run has read never went down, the
\* indices the run got confirmed are 0, 1, ..., k-1 in that order, each once,
\* for some k that does not exceed the last value read.
C17_ExactlyOnceGapFree ==
    NonDecreasing(reads) =>
        /\ RunConfirmed = Range(0, Len(RunConfirmed))
        /\ (Len(RunConfirmed) > 0 => Len(RunConfirmed) <= reads[Len(reads)])

\* C17 witness: the counter rose 1, 2, 3 over three polls and the run
\* confirmed 0, 1, 2
C17_Witness ==
    /\ reads = << 1, 2, 3 >>
    /\ RunConfirmed = << 0, 1, 2 >>
    /\ last_nonce = Some(3)

\* C18: when the cursor holds Some(c), every index below c has been confirmed
\* in this run, and c is the counter value of the last read that was
\* processed to the end (the last read but one while a pass is running or
\* has failed), which is the value read by the poll that changed the cursor
\* last.
C18_CursorSound ==
    last_nonce /= None =>
        LET c == last_nonce[1]
            k == IF pass = "running" THEN Len(reads) - 1 ELSE Len(reads)
        IN  /\ \A i \in 0..(c - 1) : i \in Elems(RunConfirmed)
            /\ k >= 1
            /\ reads[k] = c

\* C18 witness: after the counter was read 3 and then 1 the cursor holds 1
\* and a pass for a later, higher read is running
C18_Witness ==
    /\ reads = << 3, 1, 2 >>
    /\ pass = "running"
    /\ last_nonce = Some(1)
    /\ pc = "submit"

\* the run has relayed everything up to N and is only polling
Delivered(N) ==
    /\ last_nonce = Some(N)
    /\ \A i \in 0..(N - 1) : i \in Elems(RunConfirmed)
    /\ Len(RunConfirmed) = N
    /\ pc \in {"poll", "sleep"}

\* C19: in every fair behaviour in which no step fails and the counter, which
\* only grows, eventually stays at N, from some point on every index of
\* 0..N-1 is confirmed, the cursor holds N and the loop only polls and
\* sleeps, so that no further transaction is submitted.
C19_EventualDelivery ==
    \A N \in 0..MaxNonce :
        ([](err = "") /\ <>[](L1Counter = N)) => <>[]Delivered(N)

\* C19 witness: the counter reached MaxNonce in two steps, everything was
\* relayed in two passes and the loop is polling
C19_Witness ==
    /\ L1Counter = MaxNonce
    /\ Delivered(MaxNonce)
    /\ pass = "none"
    /\ Len(reads) >= 2
    /\ reads[Len(reads) - 1] = MaxNonce
    /\ \E i \in 1..Len(reads) : reads[i] \in 1..(MaxNonce - 1)

====
